---- MODULE Spec2Model ----
(***************************************************************************)
(* Deduplication and ranking engine of the news tool (src/processor.py,    *)
(* class NewsProcessor), with the configuration it reads (src/config.py).  *)
(*                                                                         *)
(* Text is a sequence of one-character strings, so that normalisation,     *)
(* substring search and difflib's matching are computed character by       *)
(* character.  Scores that Python holds as floats are exact rationals      *)
(* [num, den] (den > 0); floating-point rounding is not modelled.          *)
(***************************************************************************)
EXTENDS Integers, Sequences, FiniteSets, TLC

\* ------------------------------------------------------------------ bounds
\* Largest batch handed to deduplicate_articles / rank_articles.
MaxBatch == 3

\* --------------------------------------------------------- characters, text
\* str.lower() on the letters A-Z; every other character is left as it is.
UpperToLower ==
    [A |-> "a", B |-> "b", C |-> "c", D |-> "d", E |-> "e", F |-> "f", G |-> "g",
     H |-> "h", I |-> "i", J |-> "j", K |-> "k", L |-> "l", M |-> "m", N |-> "n",
     O |-> "o", P |-> "p", Q |-> "q", R |-> "r", S |-> "s", T |-> "t", U |-> "u",
     V |-> "v", W |-> "w", X |-> "x", Y |-> "y", Z |-> "z"]
Uppers == DOMAIN UpperToLower
Lowers == {UpperToLower[c] : c \in Uppers}
Digits == {"0","1","2","3","4","5","6","7","8","9"}

LowerChar(c) == IF c \in Uppers THEN UpperToLower[c] ELSE c

\* str.lower()
Lower(s) == [k \in 1..Len(s) |-> LowerChar(s[k])]

\* \w of Python's re: letters, digits, underscore.
WordChars == Lowers \cup Uppers \cup Digits \cup {"_"}
IsWordChar(c) == c \in WordChars

\* \s of Python's re.
IsSpaceChar(c) == c \in {" ", "\n", "\t"}

\* re.sub(r'[^\w\s]', ' ', s)
ReplaceSpecial(s) ==
    [k \in 1..Len(s) |-> IF IsWordChar(s[k]) \/ IsSpaceChar(s[k]) THEN s[k] ELSE " "]

\* re.sub(r'\s+', ' ', s): every maximal run of whitespace becomes one space.
RECURSIVE CollapseFrom(_, _)
CollapseFrom(s, k) ==
    IF k > Len(s) THEN <<>>
    ELSE IF IsSpaceChar(s[k])
         THEN (IF k > 1 /\ IsSpaceChar(s[k-1]) THEN <<>> ELSE <<" ">>) \o CollapseFrom(s, k+1)
         ELSE <<s[k]>> \o CollapseFrom(s, k+1)

CollapseSpaces(s) == CollapseFrom(s, 1)

\* str.strip()
RECURSIVE Strip(_)
Strip(s) ==
    IF s = <<>> THEN s
    ELSE IF IsSpaceChar(s[1]) THEN Strip(Tail(s))
    ELSE IF IsSpaceChar(s[Len(s)]) THEN Strip(SubSeq(s, 1, Len(s)-1))
    ELSE s

\* Python's None where a string is expected, and str(None) as f-strings print it.
None == <<"None">>
NoneText == <<"N","o","n","e">>

\* f"{value}"
Format(v) == IF v = None THEN NoneText ELSE v

\* Python truthiness of an optional string.
Falsy(v) == v = None \/ v = <<>>

\* NewsProcessor._normalize_text
_normalize_text(text) ==
    IF Falsy(text) THEN <<>>
    ELSE Strip(CollapseSpaces(ReplaceSpecial(Lower(text))))

\* hashlib.md5(...).hexdigest(): the digest is a function of the bytes hashed;
\* distinct inputs are taken to give distinct digests.
md5_hexdigest(bytes) == [md5 |-> bytes]

\* NewsProcessor._compute_fingerprint
_compute_fingerprint(text) == md5_hexdigest(_normalize_text(text))

\* Faulty variant of Contains: a keyword is found only where a word begins.
Contains_AtWordStart(haystack, needle) ==
    \E k \in 0..(Len(haystack) - Len(needle)) :
        /\ k = 0 \/ ~IsWordChar(haystack[k])
        /\ \A m \in 1..Len(needle) : haystack[k+m] = needle[m]

\* `needle in haystack` on strings.
Contains(haystack, needle) ==
    \E k \in 0..(Len(haystack) - Len(needle)) :
        \A m \in 1..Len(needle) : haystack[k+m] = needle[m]

\* ------------------------------------------------- difflib.SequenceMatcher
\* Length of the common run of a[i..] and b[j..] inside a[..ahi-1], b[..bhi-1].
RECURSIVE RunLength(_, _, _, _, _, _)
RunLength(a, b, i, j, ahi, bhi) ==
    IF i < ahi /\ j < bhi /\ a[i] = b[j]
    THEN 1 + RunLength(a, b, i+1, j+1, ahi, bhi)
    ELSE 0

SetMax(S) == CHOOSE x \in S : \A y \in S : y <= x
SetMin(S) == CHOOSE x \in S : \A y \in S : x <= y

\* SequenceMatcher.find_longest_match(alo, ahi, blo, bhi) without junk:
\* the longest block, of those the one starting earliest in a, and of those
\* the one starting earliest in b.  Indices are 1-based, ahi/bhi exclusive.
find_longest_match(a, b, alo, ahi, blo, bhi) ==
    LET size == SetMax({0} \cup {RunLength(a, b, i, j, ahi, bhi) :
                                    i \in alo..(ahi-1), j \in blo..(bhi-1)})
    IN  IF size = 0 THEN <<alo, blo, 0>>
        ELSE LET besti == SetMin({i \in alo..(ahi-1) :
                              \E j \in blo..(bhi-1) : RunLength(a, b, i, j, ahi, bhi) = size})
                 bestj == SetMin({j \in blo..(bhi-1) :
                              RunLength(a, b, besti, j, ahi, bhi) = size})
             IN  <<besti, bestj, size>>

\* Sum of the sizes of SequenceMatcher.get_matching_blocks(): the longest
\* block, then recursively the pieces to its left and to its right.
RECURSIVE MatchingSize(_, _, _, _, _, _)
MatchingSize(a, b, alo, ahi, blo, bhi) ==
    LET m == find_longest_match(a, b, alo, ahi, blo, bhi)
    IN  IF m[3] = 0 THEN 0
        ELSE m[3]
             + (IF alo < m[1] /\ blo < m[2]
                THEN MatchingSize(a, b, alo, m[1], blo, m[2]) ELSE 0)
             + (IF m[1] + m[3] < ahi /\ m[2] + m[3] < bhi
                THEN MatchingSize(a, b, m[1] + m[3], ahi, m[2] + m[3], bhi) ELSE 0)

\* SequenceMatcher(None, a, b).ratio() = 2.0 * matches / (len(a) + len(b)),
\* and 1.0 when both are empty.
SequenceMatcher_ratio(a, b) ==
    IF Len(a) + Len(b) = 0 THEN [num |-> 1, den |-> 1]
    ELSE [num |-> 2 * MatchingSize(a, b, 1, Len(a) + 1, 1, Len(b) + 1),
          den |-> Len(a) + Len(b)]

\* NewsProcessor._compute_similarity
_compute_similarity(text1, text2) ==
    IF Falsy(text1) \/ Falsy(text2) THEN [num |-> 0, den |-> 1]
    ELSE SequenceMatcher_ratio(_normalize_text(text1), _normalize_text(text2))
\* ------------------------------------------------------------ configuration
\* config.IMPACT_CRITERIA, in the order the dict is written.
IMPACT_CRITERIA == <<
    [name |-> "funding_round", score |-> 20, keywords |-> <<
        <<"f","u","n","d","i","n","g">>,
        <<"r","a","i","s","e">>,
        <<"i","n","v","e","s","t","m","e","n","t">>,
        <<"s","e","r","i","e","s">>,
        <<"v","e","n","t","u","r","e">>,
        <<"c","a","p","i","t","a","l">>,
        <<"r","o","u","n","d">>>>],
    [name |-> "acquisition", score |-> 25, keywords |-> <<
        <<"a","c","q","u","i","r","e">>,
        <<"a","c","q","u","i","s","i","t","i","o","n">>,
        <<"m","e","r","g","e","r">>,
        <<"b","u","y","o","u","t">>,
        <<"t","a","k","e","o","v","e","r">>,
        <<"p","u","r","c","h","a","s","e">>>>],
    [name |-> "layoffs", score |-> 15, keywords |-> <<
        <<"l","a","y","o","f","f">>,
        <<"f","i","r","i","n","g">>,
        <<"j","o","b"," ","c","u","t","s">>,
        <<"r","e","s","t","r","u","c","t","u","r","i","n","g">>,
        <<"d","o","w","n","s","i","z","i","n","g">>,
        <<"r","e","d","u","n","d","a","n","c","y">>>>],
    [name |-> "policy", score |-> 20, keywords |-> <<
        <<"r","e","g","u","l","a","t","i","o","n">>,
        <<"p","o","l","i","c","y">>,
        <<"g","o","v","e","r","n","m","e","n","t">>,
        <<"l","e","g","a","l">>,
        <<"l","a","w">>,
        <<"c","o","m","p","l","i","a","n","c","e">>>>],
    [name |-> "product_launch", score |-> 10, keywords |-> <<
        <<"l","a","u","n","c","h">>,
        <<"r","e","l","e","a","s","e">>,
        <<"a","n","n","o","u","n","c","e">>,
        <<"n","e","w"," ","p","r","o","d","u","c","t">>,
        <<"b","e","t","a">>,
        <<"p","r","e","v","i","e","w">>>>],
    [name |-> "security", score |-> 15, keywords |-> <<
        <<"h","a","c","k">>,
        <<"b","r","e","a","c","h">>,
        <<"s","e","c","u","r","i","t","y">>,
        <<"c","y","b","e","r">>,
        <<"v","u","l","n","e","r","a","b","i","l","i","t","y">>,
        <<"a","t","t","a","c","k">>>>],
    [name |-> "india_macro", score |-> 10, keywords |-> <<
        <<"i","n","d","i","a">>,
        <<"i","n","d","i","a","n">>,
        <<"d","e","l","h","i">>,
        <<"m","u","m","b","a","i">>,
        <<"b","a","n","g","a","l","o","r","e">>,
        <<"h","y","d","e","r","a","b","a","d">>,
        <<"c","h","e","n","n","a","i">>>>],
    [name |-> "ai_ml", score |-> 15, keywords |-> <<
        <<"a","i">>,
        <<"a","r","t","i","f","i","c","i","a","l"," ","i","n","t","e","l","l","i","g","e","n","c","e">>,
        <<"m","a","c","h","i","n","e"," ","l","e","a","r","n","i","n","g">>,
        <<"m","l">>,
        <<"n","e","u","r","a","l">>,
        <<"g","p","t">>>>],
    [name |-> "crypto", score |-> 12, keywords |-> <<
        <<"c","r","y","p","t","o">>,
        <<"b","i","t","c","o","i","n">>,
        <<"b","l","o","c","k","c","h","a","i","n">>,
        <<"n","f","t">>,
        <<"d","e","f","i">>,
        <<"e","t","h","e","r","e","u","m">>>>],
    [name |-> "ipo", score |-> 18, keywords |-> <<
        <<"i","p","o">>,
        <<"i","n","i","t","i","a","l"," ","p","u","b","l","i","c"," ","o","f","f","e","r","i","n","g">>,
        <<"p","u","b","l","i","c"," ","l","i","s","t","i","n","g">>,
        <<"s","t","o","c","k"," ","m","a","r","k","e","t">>>>]>>

\* The keyword list of calculate_controversy_score.
controversy_keywords == <<
    <<"c","o","n","t","r","o","v","e","r","s","y">>,
    <<"d","e","b","a","t","e">>,
    <<"d","i","s","p","u","t","e">>,
    <<"c","o","n","f","l","i","c","t">>,
    <<"c","r","i","t","i","c","i","s","m">>,
    <<"b","a","c","k","l","a","s","h">>,
    <<"o","u","t","r","a","g","e">>,
    <<"p","r","o","t","e","s","t">>,
    <<"b","o","y","c","o","t","t">>,
    <<"l","a","w","s","u","i","t">>>>

\* The if/elif chain of generate_summary: sentence and the words that select it.
SummaryRules == <<
    [sentence |-> "A funding round was announced", keywords |-> <<
        <<"f","u","n","d","i","n","g">>,
        <<"r","a","i","s","e">>,
        <<"i","n","v","e","s","t","m","e","n","t">>>>],
    [sentence |-> "An acquisition or merger was announced", keywords |-> <<
        <<"a","c","q","u","i","r","e">>,
        <<"a","c","q","u","i","s","i","t","i","o","n">>,
        <<"m","e","r","g","e","r">>>>],
    [sentence |-> "Layoffs or job cuts were announced", keywords |-> <<
        <<"l","a","y","o","f","f">>,
        <<"f","i","r","i","n","g">>,
        <<"j","o","b"," ","c","u","t","s">>>>],
    [sentence |-> "A new product or service was launched", keywords |-> <<
        <<"l","a","u","n","c","h">>,
        <<"r","e","l","e","a","s","e">>,
        <<"a","n","n","o","u","n","c","e">>>>]>>

\* The content rules of _extract_tags, in the order they are tested.
TagRules == <<
    [tag |-> "funding", keywords |-> <<
        <<"f","u","n","d","i","n","g">>,
        <<"r","a","i","s","e">>,
        <<"i","n","v","e","s","t","m","e","n","t">>>>],
    [tag |-> "m&a", keywords |-> <<
        <<"a","c","q","u","i","r","e">>,
        <<"a","c","q","u","i","s","i","t","i","o","n">>,
        <<"m","e","r","g","e","r">>>>],
    [tag |-> "layoffs", keywords |-> <<
        <<"l","a","y","o","f","f">>,
        <<"f","i","r","i","n","g">>,
        <<"j","o","b"," ","c","u","t","s">>>>],
    [tag |-> "policy", keywords |-> <<
        <<"r","e","g","u","l","a","t","i","o","n">>,
        <<"p","o","l","i","c","y">>,
        <<"g","o","v","e","r","n","m","e","n","t">>>>],
    [tag |-> "product", keywords |-> <<
        <<"l","a","u","n","c","h">>,
        <<"r","e","l","e","a","s","e">>,
        <<"a","n","n","o","u","n","c","e">>>>],
    [tag |-> "security", keywords |-> <<
        <<"h","a","c","k">>,
        <<"b","r","e","a","c","h">>,
        <<"s","e","c","u","r","i","t","y">>>>]>>

\* --------------------------------------------------------------- rationals
RECURSIVE GCD(_, _)
GCD(x, y) == IF y = 0 THEN x ELSE GCD(y, x % y)

\* The rational n/d in lowest terms (n >= 0, d > 0).
Rat(n, d) == [num |-> n \div GCD(n, d), den |-> d \div GCD(n, d)]
RatEq(x, y) == x.num * y.den = y.num * x.den
RatLess(x, y) == x.num * y.den < y.num * x.den
RatLeq(x, y) == x.num * y.den <= y.num * x.den

\* ----------------------------------------------------------- article dicts
\* An article is a dict: `absent` names the keys it lacks, `null` the keys
\* whose value is None; the other fields hold the values of present keys.
Article(title, url, source, published_at, category, text, reddit_score, reddit_comments) ==
    [title |-> title, url |-> url, source |-> source, published_at |-> published_at,
     category |-> category, text |-> text,
     reddit_score |-> reddit_score, reddit_comments |-> reddit_comments,
     absent |-> {}, null |-> {}]

Lacking(a, keys) == [a EXCEPT !.absent = keys]
WithNone(a, keys) == [a EXCEPT !.null = keys]

\* article.get(key, '')
GetText(a, key) ==
    IF key \in a.absent THEN <<>>
    ELSE IF key \in a.null THEN None
    ELSE a[key]

\* article.get(key, 0) for a key that is absent or holds a number.
GetNumber(a, key) == IF key \in a.absent THEN 0 ELSE a[key]

\* The strict comparison of line 105: similarity > 0.8.
ThresholdNum == 8
ThresholdDen == 10
\* Faulty variant of ExceedsThreshold: the threshold is 0.9.
ExceedsThreshold_NineTenths(ratio) == RatLess(Rat(9, 10), ratio)

\* Faulty variant of ExceedsThreshold: >= in place of >.
ExceedsThreshold_AtLeast(ratio) == RatLeq(Rat(ThresholdNum, ThresholdDen), ratio)

ExceedsThreshold(ratio) == RatLess(Rat(ThresholdNum, ThresholdDen), ratio)

\* Lines 89-93: fingerprint of f"{title} {url}".
Fingerprint(a) ==
    _compute_fingerprint(Format(GetText(a, "title")) \o <<" ">> \o Format(GetText(a, "url")))

\* sorted(seq, key) of Python: stable.  `less` is the set of pairs <<x, y>>
\* of elements such that the key of x sorts strictly before the key of y.
StableSort(seq, less) ==
    LET n == Len(seq)
        rank(k) == 1 + Cardinality({j \in 1..n :
                          \/ <<seq[j], seq[k]>> \in less
                          \/ (<<seq[k], seq[j]>> \notin less /\ j < k)})
    IN  [p \in 1..n |-> seq[CHOOSE k \in 1..n : rank(k) = p]]

RECURSIVE SumSeq(_)
SumSeq(s) == IF s = <<>> THEN 0 ELSE s[1] + SumSeq(Tail(s))

Min(x, y) == IF x <= y THEN x ELSE y

\* any(keyword in text for keyword in keywords)
AnyKeyword(text, keywords) ==
    \E k \in 1..Len(keywords) : Contains(text, keywords[k])

\* ------------------------------------------------------------------ scoring
\* Lines 157-159, 207-209, 275-277: f"{title} {text}" of the lowered fields.
combined_text(a) == Lower(GetText(a, "title")) \o <<" ">> \o Lower(GetText(a, "text"))

\* The categories of IMPACT_CRITERIA that an article matches (line 167).
MatchedCriteria(a) ==
    LET text == combined_text(a)
    IN  {k \in 1..Len(IMPACT_CRITERIA) : AnyKeyword(text, IMPACT_CRITERIA[k].keywords)}

ImpactCap == 100

\* Faulty variant of calculate_impact_score: the sum is not capped.
calculate_impact_score_uncapped(a) ==
    LET matched == MatchedCriteria(a)
    IN  SumSeq([k \in 1..Len(IMPACT_CRITERIA) |->
                  IF k \in matched THEN IMPACT_CRITERIA[k].score ELSE 0])

\* Faulty variant of calculate_impact_score: a category adds its score for
\* each of its keywords that occurs.
calculate_impact_score_PerKeyword(a) ==
    LET text == combined_text(a)
        hits(k) == Cardinality({j \in 1..Len(IMPACT_CRITERIA[k].keywords) :
                                   Contains(text, IMPACT_CRITERIA[k].keywords[j])})
    IN  Min(SumSeq([k \in 1..Len(IMPACT_CRITERIA) |-> hits(k) * IMPACT_CRITERIA[k].score]),
            ImpactCap)

\* NewsProcessor.calculate_impact_score
calculate_impact_score(a) ==
    LET matched == MatchedCriteria(a)
    IN  Min(SumSeq([k \in 1..Len(IMPACT_CRITERIA) |->
                      IF k \in matched THEN IMPACT_CRITERIA[k].score ELSE 0]),
            ImpactCap)

\* Line 185 in tenths: reddit_score + reddit_comments * 0.1.
Engagement10(a) == 10 * GetNumber(a, "reddit_score") + GetNumber(a, "reddit_comments")

\* max(engagement_data), in tenths.
MaxEngagement10(arts) == SetMax({Engagement10(arts[k]) : k \in 1..Len(arts)})

\* The key of the two score dicts: article.get('url', '').
UrlKey(a) == GetText(a, "url")

\* The entry a dict built in list order ends with for `key`: the last write.
LastWithUrl(arts, key) == SetMax({k \in 1..Len(arts) : UrlKey(arts[k]) = key})

\* NewsProcessor.calculate_virality_score: the dict keyed by url, lines 193-195.
calculate_virality_score(arts) ==
    [key \in {UrlKey(arts[k]) : k \in 1..Len(arts)} |->
        Rat(100 * Engagement10(arts[LastWithUrl(arts, key)]), MaxEngagement10(arts))]

ControversyPerHit == 20
ControversyCap == 100

\* Lines 217-221 for one article.
ControversyOf(a) ==
    LET text == combined_text(a)
        controversy_count == Cardinality({k \in 1..Len(controversy_keywords) :
                                             Contains(text, controversy_keywords[k])})
    IN  Min(controversy_count * ControversyPerHit, ControversyCap)

\* config.RANKING_WEIGHTS, in hundredths.
WeightVirality == 50
WeightImpact == 35
WeightControversy == 15
WeightScale == 100
RANKING_WEIGHTS ==
    [virality |-> WeightVirality, impact |-> WeightImpact, controversy |-> WeightControversy]

\* The values config.RANKING_WEIGHTS can be edited to: the shipped ones, a
\* set that sums to more than 1.0 and a set that sums to less.
WeightConfigs ==
    {RANKING_WEIGHTS,
     [virality |-> 50, impact |-> 35, controversy |-> 25],
     [virality |-> 40, impact |-> 35, controversy |-> 15]}

\* Faulty variant of FinalScore: the weights of impact and controversy swapped.
FinalScore_WeightsSwapped(weights, virality, impact, controversy) ==
    Rat(weights.virality * virality.num
          + (weights.controversy * impact + weights.impact * controversy) * virality.den,
        WeightScale * virality.den)

\* Lines 247-251, with RANKING_WEIGHTS = weights.
FinalScore(weights, virality, impact, controversy) ==
    Rat(weights.virality * virality.num
          + (weights.impact * impact + weights.controversy * controversy) * virality.den,
        WeightScale * virality.den)

\* Faulty variant of generate_summary: the last rule that matches is used.
generate_summary_LastMatch(a) ==
    LET title == Lower(GetText(a, "title"))
        hits == {r \in 1..Len(SummaryRules) : AnyKeyword(title, SummaryRules[r].keywords)}
        what == IF hits = {} THEN "A significant development was reported"
                ELSE SummaryRules[SetMax(hits)].sentence
        why == IF a.category = "india"
               THEN "This development has implications for the Indian startup ecosystem"
               ELSE "This development has global implications for the tech industry"
    IN  <<what, why, "The story has attracted significant attention from the tech community">>

\* NewsProcessor.generate_summary: the parts joined by " ", as a sequence.
generate_summary(a) ==
    LET title == Lower(GetText(a, "title"))
        hits == {r \in 1..Len(SummaryRules) : AnyKeyword(title, SummaryRules[r].keywords)}
        what == IF hits = {} THEN "A significant development was reported"
                ELSE SummaryRules[SetMin(hits)].sentence
        why == IF a.category = "india"
               THEN "This development has implications for the Indian startup ecosystem"
               ELSE "This development has global implications for the tech industry"
        parts == <<what, why>>
    IN  IF Len(parts) < 3
        THEN Append(parts, "The story has attracted significant attention from the tech community")
        ELSE parts

\* _extract_tags looking for the keywords in the text of the article only.
TagList_TextOnly(a) ==
    LET text == Lower(GetText(a, "text"))
    IN  <<a.category>> \o
        SelectSeq([r \in 1..Len(TagRules) |->
                      IF AnyKeyword(text, TagRules[r].keywords)
                      THEN TagRules[r].tag ELSE ""],
                  LAMBDA t : t # "")

\* The list `tags` of _extract_tags before line 297.
TagList(a) ==
    LET text == combined_text(a)
    IN  <<a.category>> \o
        SelectSeq([r \in 1..Len(TagRules) |->
                      IF AnyKeyword(text, TagRules[r].keywords)
                      THEN TagRules[r].tag ELSE ""],
                  LAMBDA t : t # "")

Reverse(s) == [k \in 1..Len(s) |-> s[Len(s) + 1 - k]]

\* The iteration orders list(set(tags)) can give: a set of str iterates in
\* an order fixed by the interpreter's string hashing, not by insertion.
SetOrders == {"insertion", "reversed"}


\* ------------------------------------------------------------------- inputs
T_hack == <<"h","a","c","k">>
T_acks == <<"a","c","k","s">>
T_hacks == <<"h","a","c","k","s">>
T_Hack_bang == <<"H","a","c","k","!">>
T_backs == <<"b","a","c","k","s">>
T_bangs == <<"!","!">>
T_question == <<"?">>
T_law == <<"l","a","w">>
T_series_a == <<"S","t","a","r","t","u","p"," ","r","a","i","s","e","s"," ","$","5","M"," ",
                "S","e","r","i","e","s"," ","A"," ","i","n"," ","B","a","n","g","a","l","o","r","e">>
X_heavy == <<"a","c","q","u","i","r","e"," ","f","u","n","d","i","n","g"," ",
             "r","e","g","u","l","a","t","i","o","n"," ","h","a","c","k"," ","i","p","o"," ",
             "c","r","y","p","t","o"," ","l","a","w","s","u","i","t"," ","d","e","b","a","t","e"," ",
             "p","r","o","t","e","s","t"," ","b","o","y","c","o","t","t"," ",
             "o","u","t","r","a","g","e"," ","b","a","c","k","l","a","s","h">>
U_a == <<"u",".","a">>
U_b == <<"u",".","b">>
U_c == <<"u",".","c">>

\* The records a batch is drawn from, as the scrapers build them
\* (src/scrapers.py lines 186-193, 291-300, 339-346) and main.py updates them
\* (lines 68-71): RSS and HTML records carry no engagement keys, a record
\* whose page was not fetched has no text, an RSS entry without a date has
\* published_at None, a fetched page without a heading sets title to None,
\* Reddit records carry score and comment counts (natural numbers).
ArticlePool == {
    Lacking(Article(T_hack, U_a, <<"A">>, 1, "global", <<>>, 100, 10), {"text"}),
    Lacking(Article(T_acks, U_b, <<"B">>, 1, "india", <<>>, 50, 5), {"text"}),
    Article(T_hacks, U_c, <<"C">>, 2, "global", X_heavy, 50, 5),
    Lacking(Article(T_Hack_bang, U_a, <<"D">>, 2, "global", <<>>, 0, 0),
            {"text", "reddit_score", "reddit_comments"}),
    Lacking(Article(T_backs, U_b, <<"E">>, 3, "india", <<>>, 50, 5),
            {"text", "published_at"}),
    Lacking(Article(T_bangs, U_a, <<"F">>, 2, "india", <<>>, 50, 5), {"text"}),
    Lacking(Article(T_question, U_b, <<"G">>, 3, "global", <<>>, 0, 0),
            {"text", "reddit_score", "reddit_comments"}),
    Article(T_series_a, U_c, <<"H">>, 1, "india", <<>>, 100, 10),
    Lacking(Article(<<>>, U_c, <<>>, 1, "global", <<>>, 0, 0),
            {"title", "text", "source", "reddit_score", "reddit_comments"}),
    WithNone(Lacking(Article(T_law, U_c, <<"I">>, 2, "global", <<>>, 50, 5), {"text"}),
             {"title"}),
    WithNone(Lacking(Article(T_law, U_a, <<"J">>, 1, "global", <<>>, 0, 0),
                     {"text", "reddit_score", "reddit_comments"}),
             {"published_at"}),
    WithNone(Lacking(Article(T_law, U_b, <<"K">>, 3, "global", <<>>, 0, 0), {"text"}),
             {"reddit_score"})
}

\* Every batch of at most MaxBatch records, in every arrival order.
Batches == UNION {[1..n -> ArticlePool] : n \in 0..MaxBatch}

\* A second, smaller family of batches whose titles and texts exercise the
\* keyword rules of generate_summary, _extract_tags and
\* calculate_controversy_score: several rules in one title, a keyword in
\* the text only, one controversy keyword written twice.
MaxTextBatch == 2

T_raise_merger == <<"r","a","i","s","e"," ","m","e","r","g","e","r">>
T_merger_layoff_launch == <<"m","e","r","g","e","r"," ","l","a","y","o","f","f"," ","l","a","u","n","c","h">>
T_firing_release == <<"F","i","r","i","n","g"," ","r","e","l","e","a","s","e">>
T_announce == <<"a","n","n","o","u","n","c","e">>
T_announce_bang == <<"a","n","n","o","u","n","c","e","!">>
T_news == <<"n","e","w","s">>
X_debate_twice == <<"d","e","b","a","t","e"," ","d","e","b","a","t","e"," ","l","a","w","s","u","i","t">>
X_raise == <<"r","a","i","s","e">>
U_d == <<"u",".","d">>
U_e == <<"u",".","e">>
U_f == <<"u",".","f">>
U_g == <<"u",".","g">>

TextPool == {
    Article(T_raise_merger, U_d, <<"L">>, 1, "india", <<>>, 100, 10),
    Article(T_merger_layoff_launch, U_e, <<"M">>, 1, "global", X_debate_twice, 50, 5),
    Lacking(Article(T_firing_release, U_f, <<"N">>, 2, "india", <<>>, 50, 5), {"text"}),
    Lacking(Article(T_announce, U_g, <<"O">>, 2, "global", <<>>, 100, 10), {"text"}),
    Lacking(Article(T_announce_bang, U_a, <<"P">>, 3, "global", <<>>, 0, 0),
            {"text", "reddit_score", "reddit_comments"}),
    Lacking(Article(T_news, U_b, <<"Q">>, 3, "india", X_raise, 0, 0),
            {"reddit_score", "reddit_comments"}),
    WithNone(Lacking(Article(T_news, U_c, <<"R">>, 3, "global", <<>>, 50, 5), {"text"}),
             {"published_at"})
}

TextBatches == UNION {[1..n -> TextPool] : n \in 0..MaxTextBatch}

\* The dicts of the pools above that have the shape the scrapers build
\* (scrapers.py lines 186-193 and 291-300: title, url, published_at, source
\* and category always set, published_at None when a feed entry has no
\* date, no text yet), from four of the sources.
MaxScraped == 2
ScrapedSources == {<<"A">>, <<"J">>, <<"N">>, <<"O">>}
ScrapedPool ==
    {a \in ArticlePool \cup TextPool :
        /\ a.source \in ScrapedSources
        /\ "text" \in a.absent
        /\ a.absent \subseteq {"text", "reddit_score", "reddit_comments"}
        /\ a.null \subseteq {"published_at"}}
ScrapedBatches == UNION {[1..n -> ScrapedPool] : n \in 0..MaxScraped}

\* What fetch_article returns for a page (scrapers.py lines 248-253): the
\* title of the page, None when no selector finds one, and its paragraphs
\* joined; byline and url do not change what the processor reads.
Pages == {[title |-> None, text |-> <<>>], [title |-> T_hacks, text |-> X_heavy]}

\* article.update(content), main.py line 71.
article_update(a, content) ==
    [a EXCEPT !.title = IF content.title = None THEN <<>> ELSE content.title,
              !.text = content.text,
              !.absent = @ \ {"title", "text"},
              !.null = (@ \ {"title", "text"})
                          \cup (IF content.title = None THEN {"title"} ELSE {})]

FetchedPool == {article_update(a, content) : a \in ScrapedPool, content \in Pages}

\* Every record a batch can hold.
Records == ArticlePool \cup TextPool \cup FetchedPool

\* datetime.now() of line 83, the sort key of a record without published_at.
\* It is the local wall clock at the time of the call, while the dates of the
\* records come from the feeds (scrapers.py line 179 takes the feed's UTC
\* time as it is): the reading can lie before, between or after them.
Now == 1 + SetMax({a.published_at : a \in Records})
Clock == 0..Now

\* The sort key of line 83 when the clock reads `now`.
PublishedKey(a, now) == IF "published_at" \in a.absent THEN now ELSE a.published_at

\* The text functions of the code, evaluated once for each record of the pool
\* (they depend on the record alone).
FingerprintOf == [a \in Records |-> Fingerprint(a)]
TitleRatio == [a \in Records |-> [b \in Records |->
                  _compute_similarity(GetText(a, "title"), GetText(b, "title"))]]
SimilarTo == [a \in Records |->
                {b \in Records : ExceedsThreshold(TitleRatio[a][b])}]
ImpactOf == [a \in Records |-> calculate_impact_score(a)]
ControversyOfRecord == [a \in Records |-> ControversyOf(a)]
SummaryOf == [a \in Records |-> generate_summary(a)]
TagListOf == [a \in Records |-> TagList(a)]

\* NewsProcessor.calculate_controversy_score: the dict keyed by url.
calculate_controversy_score(arts) ==
    [key \in {UrlKey(arts[k]) : k \in 1..Len(arts)} |->
        ControversyOfRecord[arts[LastWithUrl(arts, key)]]]

\* NewsProcessor._extract_tags under one iteration order of set.
_extract_tags(a, order) ==
    LET tags == TagListOf[a]
        first(k) == \A j \in 1..(k-1) : tags[j] # tags[k]
        distinct == SelectSeq([k \in 1..Len(tags) |-> IF first(k) THEN tags[k] ELSE ""],
                              LAMBDA t : t # "")
    IN  IF order = "insertion" THEN distinct ELSE Reverse(distinct)

\* ------------------------------------------------------------------- state
VARIABLES
    articles,           \* the list handed to process_articles (dict contents as handed in)
    added,              \* keys the code has added to each dict, by position in `articles`
    sorted_articles,    \* the local `articles` of deduplicate_articles after line 83
    idx,                \* position of the for loop of line 88 in sorted_articles
    unique_articles,    \* line 85
    seen_fingerprints,  \* line 86
    ranked_articles,    \* the list process_articles returns
    pc,                 \* where process_articles is
    error,              \* the exception that ended it, "none" otherwise
    outcome,            \* history: what the loop did with each article so far
    earlier_runs,       \* what earlier calls of process_articles on this list returned
    ranking_weights,    \* config.RANKING_WEIGHTS as processor.py imported it (line 14)
    pipeline,           \* NewsPipeline.run_daily_pipeline: where it is, the calls it made, its result
    request             \* BaseScraper._make_request: its parameter, the GETs it sent, its result

vars == <<articles, added, sorted_articles, idx, unique_articles, seen_fingerprints,
          ranked_articles, pc, error, outcome, earlier_runs, ranking_weights,
          pipeline, request>>

process_vars == <<articles, added, sorted_articles, idx, unique_articles, seen_fingerprints,
                  ranked_articles, pc, error, outcome, earlier_runs, ranking_weights>>

\* run_daily_pipeline has not been called.
PipelineIdle == [pc |-> "idle", calls |-> <<>>, returned |-> "nothing"]

\* `return None` of _make_request, and `return response`.
ReturnNone == [none |-> TRUE, status_code |-> 0]
ReturnResponse(response) == [none |-> FALSE, status_code |-> response.status_code]

\* _make_request has not been called.
RequestIdle == [pc |-> "idle", retries |-> 0, gets |-> <<>>, response |-> ReturnNone]

\* Dicts are identified by their position in `articles`; lists hold positions.
NoScores == [virality |-> Rat(0, 1), impact |-> 0, controversy |-> 0, final |-> Rat(0, 1)]
NothingAdded == [keys |-> {}, sources |-> <<>>, scores |-> NoScores,
                 summary |-> <<>>, tags |-> <<>>]

Init ==
    /\ articles \in Batches
    /\ added = [k \in 1..Len(articles) |-> NothingAdded]
    /\ sorted_articles = <<>>
    /\ idx = 0
    /\ unique_articles = <<>>
    /\ seen_fingerprints = {}
    /\ ranked_articles = <<>>
    /\ pc = "deduplicate"
    /\ error = "none"
    /\ outcome = <<>>
    /\ earlier_runs = <<>>
    /\ ranking_weights = RANKING_WEIGHTS
    /\ pipeline = PipelineIdle
    /\ request = RequestIdle

\* ------------------------------------------------- deduplicate_articles
Range(s) == {s[k] : k \in 1..Len(s)}

\* sorted() compares keys as soon as there are two of them; None does not
\* compare with a datetime (TypeError).
SortRaises(batch) ==
    /\ Len(batch) >= 2
    /\ \E k \in 1..Len(batch) : "published_at" \in batch[k].null

\* Lines 79-80: an empty batch is returned as it is.
DedupEmpty ==
    /\ pc = "deduplicate"
    /\ articles = <<>>
    /\ pc' = "rank"
    /\ UNCHANGED <<pipeline, request, ranking_weights, earlier_runs, articles, added, sorted_articles, idx, unique_articles,
                   seen_fingerprints, ranked_articles, error, outcome>>

\* Line 83 raising.
DedupSortRaises ==
    /\ pc = "deduplicate"
    /\ SortRaises(articles)
    /\ pc' = "raised"
    /\ error' = "TypeError"
    /\ UNCHANGED <<pipeline, request, ranking_weights, earlier_runs, articles, added, sorted_articles, idx, unique_articles,
                   seen_fingerprints, ranked_articles, outcome>>

\* Faulty variant of DedupSort: the batch is not sorted, the loop takes the
\* articles in arrival order.
DedupSort_ArrivalOrder ==
    /\ pc = "deduplicate"
    /\ articles # <<>>
    /\ ~SortRaises(articles)
    /\ sorted_articles' = [k \in 1..Len(articles) |-> k]
    /\ idx' = 1
    /\ pc' = "dedup_loop"
    /\ UNCHANGED <<pipeline, request, ranking_weights, earlier_runs, articles, added, unique_articles,
                   seen_fingerprints, ranked_articles, error, outcome>>

\* Lines 83-86: sort by publish date, earliest first, and start the loop.
DedupSort ==
    /\ pc = "deduplicate"
    /\ articles # <<>>
    /\ ~SortRaises(articles)
    /\ \E now \in Clock :
          sorted_articles' =
             StableSort([k \in 1..Len(articles) |-> k],
                        {p \in (1..Len(articles)) \X (1..Len(articles)) :
                            PublishedKey(articles[p[1]], now)
                                < PublishedKey(articles[p[2]], now)})
    /\ idx' = 1
    /\ pc' = "dedup_loop"
    /\ UNCHANGED <<pipeline, request, ranking_weights, earlier_runs, articles, added, unique_articles, seen_fingerprints,
                   ranked_articles, error, outcome>>

\* Faulty variant of FirstSimilar: the scan runs to the end of the list and
\* the last similar article is taken.
FirstSimilar_Last(article, unique) ==
    LET hits == {k \in 1..Len(unique) :
                    articles[unique[k]] \in SimilarTo[article]}
    IN  IF hits = {} THEN 0 ELSE SetMax(hits)

\* Lines 101-111: the first article of unique_articles whose title is more
\* than 0.8 similar to the title of `article`, 0 when there is none.
FirstSimilar(article, unique) ==
    LET hits == {k \in 1..Len(unique) :
                    articles[unique[k]] \in SimilarTo[article]}
    IN  IF hits = {} THEN 0 ELSE SetMin(hits)

\* The article the loop is at, and the end of an iteration.
Current == sorted_articles[idx]

Advance ==
    /\ idx' = idx + 1
    /\ pc' = IF idx = Len(sorted_articles) THEN "rank" ELSE "dedup_loop"

\* Lines 96-97: the fingerprint was seen, the article is skipped.
DedupDiscard ==
    /\ pc = "dedup_loop"
    /\ FingerprintOf[articles[Current]] \in seen_fingerprints
    /\ outcome' = Append(outcome, [id |-> Current, kind |-> "discarded", into |-> 0])
    /\ Advance
    /\ UNCHANGED <<pipeline, request, ranking_weights, earlier_runs, articles, added, sorted_articles, unique_articles,
                   seen_fingerprints, ranked_articles, error>>

\* Faulty variant of DedupMerge: the fingerprint of the merged article is
\* recorded as seen.
DedupMerge_RecordsFingerprint ==
    /\ pc = "dedup_loop"
    /\ FingerprintOf[articles[Current]] \notin seen_fingerprints
    /\ LET hit == FirstSimilar(articles[Current], unique_articles)
       IN  /\ hit # 0
           /\ LET existing == unique_articles[hit]
                  before == IF "sources" \in added[existing].keys
                            THEN added[existing].sources
                            ELSE <<GetText(articles[existing], "source")>>
              IN  /\ added' = [added EXCEPT
                         ![existing].keys = @ \cup {"sources"},
                         ![existing].sources =
                             Append(before, GetText(articles[Current], "source"))]
                  /\ outcome' = Append(outcome,
                         [id |-> Current, kind |-> "merged", into |-> existing])
    /\ seen_fingerprints' = seen_fingerprints \cup {FingerprintOf[articles[Current]]}
    /\ idx' = idx + 1
    /\ pc' = IF idx = Len(sorted_articles) THEN "rank" ELSE "dedup_loop"
    /\ UNCHANGED <<pipeline, request, ranking_weights, earlier_runs, articles, sorted_articles,
                   unique_articles, ranked_articles, error>>

\* Faulty variant of DedupMerge: the scan does not stop at the first similar
\* article, the source joins every similar article's sources.
DedupMerge_EverySimilar ==
    /\ pc = "dedup_loop"
    /\ FingerprintOf[articles[Current]] \notin seen_fingerprints
    /\ LET hits == {e \in Range(unique_articles) : articles[e] \in SimilarTo[articles[Current]]}
       IN  /\ hits # {}
           /\ added' = [e \in DOMAIN added |->
                  IF e \in hits
                  THEN [added[e] EXCEPT
                          !.keys = @ \cup {"sources"},
                          !.sources = Append(IF "sources" \in added[e].keys
                                             THEN added[e].sources
                                             ELSE <<GetText(articles[e], "source")>>,
                                             GetText(articles[Current], "source"))]
                  ELSE added[e]]
           /\ outcome' = Append(outcome,
                  [id |-> Current, kind |-> "merged",
                   into |-> unique_articles[FirstSimilar(articles[Current], unique_articles)]])
    /\ idx' = idx + 1
    /\ pc' = IF idx = Len(sorted_articles) THEN "rank" ELSE "dedup_loop"
    /\ UNCHANGED <<pipeline, request, ranking_weights, earlier_runs, articles, sorted_articles, unique_articles, seen_fingerprints,
                   ranked_articles, error>>

\* Lines 105-111: a similar title was found; the source joins that article's
\* sources, which are created from its own source when it has none yet.
DedupMerge ==
    /\ pc = "dedup_loop"
    /\ FingerprintOf[articles[Current]] \notin seen_fingerprints
    /\ LET hit == FirstSimilar(articles[Current], unique_articles)
       IN  /\ hit # 0
           /\ LET existing == unique_articles[hit]
                  before == IF "sources" \in added[existing].keys
                            THEN added[existing].sources
                            ELSE <<GetText(articles[existing], "source")>>
              IN  /\ added' = [added EXCEPT
                         ![existing].keys = @ \cup {"sources"},
                         ![existing].sources =
                             Append(before, GetText(articles[Current], "source"))]
                  /\ outcome' = Append(outcome,
                         [id |-> Current, kind |-> "merged", into |-> existing])
    /\ Advance
    /\ UNCHANGED <<pipeline, request, ranking_weights, earlier_runs, articles, sorted_articles, unique_articles, seen_fingerprints,
                   ranked_articles, error>>

\* Faulty variant of DedupKeep: the fingerprint is not recorded.
DedupKeep_FingerprintNotRecorded ==
    /\ pc = "dedup_loop"
    /\ FingerprintOf[articles[Current]] \notin seen_fingerprints
    /\ FirstSimilar(articles[Current], unique_articles) = 0
    /\ unique_articles' = Append(unique_articles, Current)
    /\ outcome' = Append(outcome, [id |-> Current, kind |-> "canonical", into |-> 0])
    /\ idx' = idx + 1
    /\ pc' = IF idx = Len(sorted_articles) THEN "rank" ELSE "dedup_loop"
    /\ UNCHANGED <<pipeline, request, ranking_weights, earlier_runs, articles, added, sorted_articles, seen_fingerprints,
                   ranked_articles, error>>

\* Lines 113-115: a new story.
DedupKeep ==
    /\ pc = "dedup_loop"
    /\ FingerprintOf[articles[Current]] \notin seen_fingerprints
    /\ FirstSimilar(articles[Current], unique_articles) = 0
    /\ seen_fingerprints' = seen_fingerprints \cup {FingerprintOf[articles[Current]]}
    /\ unique_articles' = Append(unique_articles, Current)
    /\ outcome' = Append(outcome, [id |-> Current, kind |-> "canonical", into |-> 0])
    /\ Advance
    /\ UNCHANGED <<pipeline, request, ranking_weights, earlier_runs, articles, added, sorted_articles, ranked_articles, error>>

\* ---------------------------------------------------------- rank_articles
\* The dicts of unique_articles, in list order.
UniqueDicts == [k \in 1..Len(unique_articles) |-> articles[unique_articles[k]]]

\* The exception rank_articles ends with, "none" when it returns:
\* line 185 adds None (TypeError), line 194 divides by a zero maximum
\* (ZeroDivisionError), lines 207-208 call .lower() on None (AttributeError).
RankError(arts) ==
    IF \E k \in 1..Len(arts) :
          arts[k].null \cap {"reddit_score", "reddit_comments"} # {}
    THEN "TypeError"
    ELSE IF MaxEngagement10(arts) = 0 THEN "ZeroDivisionError"
    ELSE IF \E k \in 1..Len(arts) : arts[k].null \cap {"title", "text"} # {}
    THEN "AttributeError"
    ELSE "none"

\* Lines 237-259: the scores stored on one article.
ScoresOf(a, virality_scores, controversy_scores) ==
    LET impact_score == ImpactOf[a]
        virality_score == virality_scores[UrlKey(a)]
        controversy_score == controversy_scores[UrlKey(a)]
    IN  [virality |-> virality_score,
         impact |-> impact_score,
         controversy |-> controversy_score,
         final |-> FinalScore(ranking_weights, virality_score, impact_score,
                              controversy_score)]

\* Faulty variant of SortByFinal: only the two highest finals are returned.
SortByFinal_TopTwo(ids, scores) ==
    LET ranked == StableSort(ids, {p \in Range(ids) \X Range(ids) :
                                      RatLess(scores[p[2]].final, scores[p[1]].final)})
    IN  SubSeq(ranked, 1, Min(2, Len(ranked)))

\* Faulty variant of SortByFinal: equal finals come out in reverse input order
\* (an ascending sort that is then reversed).
SortByFinal_TiesReversed(ids, scores) ==
    Reverse(StableSort(ids, {p \in Range(ids) \X Range(ids) :
                                RatLess(scores[p[1]].final, scores[p[2]].final)}))

\* Line 268: sorted(articles, key=final, reverse=True).
SortByFinal(ids, scores) ==
    StableSort(ids, {p \in Range(ids) \X Range(ids) :
                        RatLess(scores[p[2]].final, scores[p[1]].final)})

\* Faulty variant of RankEmpty: without the guard of lines 228-229 the
\* maximum of no engagement is taken.
RankEmpty_NoGuard ==
    /\ pc = "rank"
    /\ unique_articles = <<>>
    /\ error' = "ValueError"
    /\ pc' = "raised"
    /\ UNCHANGED <<pipeline, request, ranking_weights, earlier_runs, articles, added, sorted_articles, idx,
                   unique_articles, seen_fingerprints, ranked_articles, outcome>>

\* Lines 228-229.
RankEmpty ==
    /\ pc = "rank"
    /\ unique_articles = <<>>
    /\ ranked_articles' = <<>>
    /\ pc' = "done"
    /\ UNCHANGED <<pipeline, request, ranking_weights, earlier_runs, articles, added, sorted_articles, idx, unique_articles,
                   seen_fingerprints, error, outcome>>

\* Lines 232-233 raising, before any article is given scores.
RankRaises ==
    /\ pc = "rank"
    /\ unique_articles # <<>>
    /\ RankError(UniqueDicts) # "none"
    /\ error' = RankError(UniqueDicts)
    /\ pc' = "raised"
    /\ UNCHANGED <<pipeline, request, ranking_weights, earlier_runs, articles, added, sorted_articles, idx, unique_articles,
                   seen_fingerprints, ranked_articles, outcome>>

\* Lines 232-270.
RankArticles ==
    /\ pc = "rank"
    /\ unique_articles # <<>>
    /\ RankError(UniqueDicts) = "none"
    /\ LET virality_scores == calculate_virality_score(UniqueDicts)
           controversy_scores == calculate_controversy_score(UniqueDicts)
           scores == [id \in Range(unique_articles) |->
                         ScoresOf(articles[id], virality_scores, controversy_scores)]
       IN  /\ \E order \in SetOrders :
                 added' = [id \in DOMAIN added |->
                    IF id \in Range(unique_articles)
                    THEN [added[id] EXCEPT
                            !.keys = @ \cup {"scores", "summary", "tags"},
                            !.scores = scores[id],
                            !.summary = SummaryOf[articles[id]],
                            !.tags = _extract_tags(articles[id], order)]
                    ELSE added[id]]
           /\ ranked_articles' = SortByFinal(unique_articles, scores)
    /\ pc' = "done"
    /\ UNCHANGED <<pipeline, request, ranking_weights, earlier_runs, articles, sorted_articles, idx, unique_articles,
                   seen_fingerprints, error, outcome>>

Next ==
    \/ DedupEmpty
    \/ DedupSortRaises
    \/ DedupSort
    \/ DedupDiscard
    \/ DedupMerge
    \/ DedupKeep
    \/ RankEmpty
    \/ RankRaises
    \/ RankArticles

Spec == Init /\ [][Next]_vars

\* ------------------------------------------- process_articles called again
\* What a call returned: the order of the list and the scores on its dicts.
Returned ==
    [order |-> ranked_articles,
     scores |-> [k \in 1..Len(ranked_articles) |-> added[ranked_articles[k]].scores]]

\* The caller hands the same list to process_articles a second time.  The
\* dicts are the same objects, so they keep the keys the first call put on
\* them; the locals of the first call are gone.
ProcessAgain ==
    /\ pc = "done"
    /\ earlier_runs = <<>>
    /\ earlier_runs' = <<Returned>>
    /\ sorted_articles' = <<>>
    /\ idx' = 0
    /\ unique_articles' = <<>>
    /\ seen_fingerprints' = {}
    /\ ranked_articles' = <<>>
    /\ outcome' = <<>>
    /\ pc' = "deduplicate"
    /\ UNCHANGED <<pipeline, request, ranking_weights, articles, added, error>>

NextTwice ==
    \/ DedupEmpty
    \/ DedupSortRaises
    \/ DedupSort
    \/ DedupDiscard
    \/ DedupMerge
    \/ DedupKeep
    \/ RankEmpty
    \/ RankRaises
    \/ RankArticles
    \/ ProcessAgain

SpecTwice == Init /\ [][NextTwice]_vars

\* ------------------------------ deduplicate_articles on its own output
\* What deduplicate_articles returned: the list and the sources on its dicts.
Deduplicated ==
    [order |-> unique_articles,
     sources |-> [k \in 1..Len(unique_articles) |->
                     IF "sources" \in added[unique_articles[k]].keys
                     THEN added[unique_articles[k]].sources
                     ELSE <<>>]]

\* The caller hands the list deduplicate_articles returned to
\* deduplicate_articles again: lines 79-86 on that list (it holds at most
\* one dict without a date to compare, or none with published_at None, so
\* sorted() does not raise), with a new reading of the clock.
DedupOwnOutput ==
    /\ pc = "rank"
    /\ earlier_runs = <<>>
    /\ earlier_runs' = <<Deduplicated>>
    /\ \E now \in Clock :
          sorted_articles' =
             StableSort(unique_articles,
                        {p \in Range(unique_articles) \X Range(unique_articles) :
                            PublishedKey(articles[p[1]], now)
                                < PublishedKey(articles[p[2]], now)})
    /\ idx' = 1
    /\ unique_articles' = <<>>
    /\ seen_fingerprints' = {}
    /\ outcome' = <<>>
    /\ pc' = IF unique_articles = <<>> THEN "rank" ELSE "dedup_loop"
    /\ UNCHANGED <<pipeline, request, ranking_weights, articles, added, ranked_articles, error>>

NextDedupTwice ==
    \/ DedupEmpty
    \/ DedupSortRaises
    \/ DedupSort
    \/ DedupDiscard
    \/ DedupMerge
    \/ DedupKeep
    \/ DedupOwnOutput
    \/ RankEmpty
    \/ RankRaises
    \/ RankArticles

SpecDedupTwice == Init /\ [][NextDedupTwice]_vars

\* ------------------------------------- process_articles on the text batches
InitTexts ==
    /\ articles \in TextBatches
    /\ added = [k \in 1..Len(articles) |-> NothingAdded]
    /\ sorted_articles = <<>>
    /\ idx = 0
    /\ unique_articles = <<>>
    /\ seen_fingerprints = {}
    /\ ranked_articles = <<>>
    /\ pc = "deduplicate"
    /\ error = "none"
    /\ outcome = <<>>
    /\ earlier_runs = <<>>
    /\ ranking_weights = RANKING_WEIGHTS
    /\ pipeline = PipelineIdle
    /\ request = RequestIdle

SpecTexts == InitTexts /\ [][Next]_vars

\* ------------------------------------------------- setup of the processor
\* Before NewsProcessor() is constructed: config.py holds some weights.
InitSetup ==
    /\ articles \in Batches
    /\ added = [k \in 1..Len(articles) |-> NothingAdded]
    /\ sorted_articles = <<>>
    /\ idx = 0
    /\ unique_articles = <<>>
    /\ seen_fingerprints = {}
    /\ ranked_articles = <<>>
    /\ pc = "construct"
    /\ error = "none"
    /\ outcome = <<>>
    /\ earlier_runs = <<>>
    /\ ranking_weights \in WeightConfigs
    /\ pipeline = PipelineIdle
    /\ request = RequestIdle

\* NewsProcessor.__init__ (lines 32-38): builds the stop-word set and the
\* vectorizer; it does not look at RANKING_WEIGHTS.
NewsProcessor__init__ ==
    /\ pc = "construct"
    /\ pc' = "deduplicate"
    /\ UNCHANGED <<pipeline, request, ranking_weights, earlier_runs, articles, added, sorted_articles, idx,
                   unique_articles, seen_fingerprints, ranked_articles, error, outcome>>

NextSetup ==
    \/ NewsProcessor__init__
    \/ DedupEmpty
    \/ DedupSortRaises
    \/ DedupSort
    \/ DedupDiscard
    \/ DedupMerge
    \/ DedupKeep
    \/ RankEmpty
    \/ RankRaises
    \/ RankArticles

SpecSetup == InitSetup /\ [][NextSetup]_vars

\* ------------------------------------------- BaseScraper._make_request
\* SCRAPING_CONFIG['max_retries']
max_retries == 5

\* What one session.get does: it returns a response with a status code or
\* raises; requests.exceptions.SSLError is told apart from every other
\* exception (lines 87 and 100).
Response(status_code) == [raised |-> "none", status_code |-> status_code]
Raises(exception) == [raised |-> exception, status_code |-> 0]
StatusCodes == {200, 404, 429, 500, 503}
GetOutcomes == {Response(c) : c \in StatusCodes} \cup {Raises("SSLError"), Raises("Exception")}

\* One entry of the history of GETs: what the GET did and whether it was
\* the GET of line 71 or the one of the SSLError handler (line 91).
Get(did, line) == [outcome |-> did, line |-> line]

\* Faulty variant of RetriesAfterStatus: every status but 200 is retried.
RetriesAfterStatus_AnyError(status_code) == status_code # 200

\* Line 81: the statuses after which _make_request calls itself again.
RetriesAfterStatus(status_code) == status_code \in {429, 503}

\* A caller (fetch_list, fetch_article) calls _make_request(url): retries
\* has its default 0.
InitRequest ==
    /\ articles = <<>>
    /\ added = <<>>
    /\ sorted_articles = <<>>
    /\ idx = 0
    /\ unique_articles = <<>>
    /\ seen_fingerprints = {}
    /\ ranked_articles = <<>>
    /\ pc = "idle"
    /\ error = "none"
    /\ outcome = <<>>
    /\ earlier_runs = <<>>
    /\ ranking_weights = RANKING_WEIGHTS
    /\ pipeline = PipelineIdle
    /\ request = [pc |-> "called", retries |-> 0, gets |-> <<>>, response |-> ReturnNone]

\* Lines 46-48: retries has reached max_retries.
MaxRetriesExceeded ==
    /\ request.pc = "called"
    /\ request.retries >= max_retries
    /\ request' = [request EXCEPT !.pc = "returned", !.response = ReturnNone]
    /\ UNCHANGED <<process_vars, pipeline>>

\* Lines 50-78: the GET returns 200 and the response is returned.
RequestReturnsResponse ==
    /\ request.pc = "called"
    /\ request.retries < max_retries
    /\ request' = [request EXCEPT !.pc = "returned",
                                   !.gets = Append(@, Get(Response(200), 71)),
                                   !.response = ReturnResponse(Response(200))]
    /\ UNCHANGED <<process_vars, pipeline>>

\* Lines 79-82: rate limited or unavailable; _make_request(url, retries + 1)
\* is called and what it returns is returned.
RequestRateLimited ==
    /\ request.pc = "called"
    /\ request.retries < max_retries
    /\ \E c \in StatusCodes \ {200} :
          /\ RetriesAfterStatus(c)
          /\ request' = [request EXCEPT !.retries = @ + 1,
                                         !.gets = Append(@, Get(Response(c), 71))]
    /\ UNCHANGED <<process_vars, pipeline>>

\* Lines 83-85: any other status.
RequestOtherStatus ==
    /\ request.pc = "called"
    /\ request.retries < max_retries
    /\ \E c \in StatusCodes \ {200} :
          /\ ~RetriesAfterStatus(c)
          /\ request' = [request EXCEPT !.pc = "returned",
                                         !.gets = Append(@, Get(Response(c), 71)),
                                         !.response = ReturnNone]
    /\ UNCHANGED <<process_vars, pipeline>>

\* Lines 87-99: the GET raises SSLError; one more GET is sent, and its
\* response is returned if its status is 200, None otherwise and when it
\* raises.
RequestSSLError ==
    /\ request.pc = "called"
    /\ request.retries < max_retries
    /\ \E second \in GetOutcomes :
          request' = [request EXCEPT !.pc = "returned",
                                     !.gets = @ \o <<Get(Raises("SSLError"), 71),
                                                     Get(second, 91)>>,
                                     !.response = IF second = Response(200)
                                                  THEN ReturnResponse(second)
                                                  ELSE ReturnNone]
    /\ UNCHANGED <<process_vars, pipeline>>

\* Lines 100-103: the GET raises another exception;
\* _make_request(url, retries + 1) is called and what it returns is returned.
RequestFails ==
    /\ request.pc = "called"
    /\ request.retries < max_retries
    /\ request' = [request EXCEPT !.retries = @ + 1,
                                   !.gets = Append(@, Get(Raises("Exception"), 71))]
    /\ UNCHANGED <<process_vars, pipeline>>

NextRequest ==
    \/ MaxRetriesExceeded
    \/ RequestReturnsResponse
    \/ RequestRateLimited
    \/ RequestOtherStatus
    \/ RequestSSLError
    \/ RequestFails

\* Every GET returns or raises (timeout, line 73) and every sleep ends, so
\* a call that can take a step takes it.
SpecRequest == InitRequest /\ [][NextRequest]_vars /\ WF_vars(NextRequest)

\* ---------------------------------------- NewsPipeline.run_daily_pipeline
\* run_daily_pipeline is called; the processor has not been handed a list.
InitPipeline ==
    /\ articles = <<>>
    /\ added = <<>>
    /\ sorted_articles = <<>>
    /\ idx = 0
    /\ unique_articles = <<>>
    /\ seen_fingerprints = {}
    /\ ranked_articles = <<>>
    /\ pc = "idle"
    /\ error = "none"
    /\ outcome = <<>>
    /\ earlier_runs = <<>>
    /\ ranking_weights = RANKING_WEIGHTS
    /\ pipeline = [pc |-> "scrape", calls |-> <<>>, returned |-> "nothing"]
    /\ request = RequestIdle

\* One entry of the history of calls: the function and how the call ended.
Call(function, result) == [call |-> function, result |-> result]

\* `return False` / `return True` after one more call.
ReturnAfter(call, value) ==
    [pc |-> "returned", calls |-> Append(pipeline.calls, call), returned |-> value]
ContinueAfter(call, step) ==
    [pc |-> step, calls |-> Append(pipeline.calls, call), returned |-> "nothing"]

\* Step 1, lines 48-55.
ScrapeAllSources ==
    /\ pipeline.pc = "scrape"
    /\ \E batch \in ScrapedBatches :
          /\ articles' = batch
          /\ added' = [k \in 1..Len(batch) |-> NothingAdded]
          /\ pipeline' = IF batch = <<>>
                         THEN ReturnAfter(Call("scrape_all_sources", "empty"), "False")
                         ELSE ContinueAfter(Call("scrape_all_sources", "articles"), "fetch")
    /\ UNCHANGED <<request, ranking_weights, earlier_runs, sorted_articles, idx,
                   unique_articles, seen_fingerprints, ranked_articles, pc, error, outcome>>

\* Step 2, lines 57-81: each article is updated with the content of its
\* page, or left as it is when the fetch returns None or raises; then
\* process_articles is called (line 84).
FetchContent ==
    /\ pipeline.pc = "fetch"
    /\ \E batch \in [1..Len(articles) -> Records] :
          /\ \A k \in 1..Len(articles) :
                \/ batch[k] = articles[k]
                \/ \E content \in Pages : batch[k] = article_update(articles[k], content)
          /\ articles' = batch
    /\ pipeline' = ContinueAfter(Call("fetch_article_content", "done"), "process")
    /\ pc' = "deduplicate"
    /\ UNCHANGED <<request, ranking_weights, earlier_runs, added, sorted_articles, idx,
                   unique_articles, seen_fingerprints, ranked_articles, error, outcome>>

\* Lines 84-89 and the handler of line 150: process_articles has returned
\* or raised.
ProcessReturned ==
    /\ pipeline.pc = "process"
    /\ pc \in {"done", "raised"}
    /\ pipeline' = IF pc = "raised"
                   THEN ReturnAfter(Call("process_articles", "raised"), "False")
                   ELSE IF ranked_articles = <<>>
                   THEN ReturnAfter(Call("process_articles", "empty"), "False")
                   ELSE ContinueAfter(Call("process_articles", "articles"), "reactions")
    /\ UNCHANGED <<request, process_vars>>

\* article['title'] of lines 98-101 and 117-120 raises for these.
NoTitleToLog == {id \in Range(ranked_articles) : "title" \in articles[id].absent}

\* Step 4, lines 92-121: the reactions are found, or the step raises and
\* reactions = {}; either way every article is given a 'reactions' list.
\* A KeyError in the loop of lines 113-121 is caught at line 150.
SocialReactions ==
    /\ pipeline.pc = "reactions"
    /\ \E result \in {"found", "raised"} :
          /\ NoTitleToLog # {} => result = "raised"
          /\ pipeline' = IF NoTitleToLog # {}
                         THEN ReturnAfter(Call("get_top_reactions", result), "False")
                         ELSE ContinueAfter(Call("get_top_reactions", result), "save")
    /\ added' = [k \in 1..Len(added) |->
                    IF k \in Range(ranked_articles) /\ NoTitleToLog = {}
                    THEN [added[k] EXCEPT !.keys = @ \cup {"reactions"}]
                    ELSE added[k]]
    /\ UNCHANGED <<request, ranking_weights, earlier_runs, articles, sorted_articles, idx,
                   unique_articles, seen_fingerprints, ranked_articles, pc, error, outcome>>

\* Faulty variant of SaveDailyEdition: the pages are generated whatever
\* save_daily_edition returned.
SaveDailyEdition_ResultIgnored ==
    /\ pipeline.pc = "save"
    /\ \E success \in {"True", "False"} :
          pipeline' = ContinueAfter(Call("save_daily_edition", success), "generate")
    /\ UNCHANGED <<request, process_vars>>

\* Step 5, lines 124-133: save_daily_edition returns True or False
\* (data_manager.py catches what it raises).
SaveDailyEdition ==
    /\ pipeline.pc = "save"
    /\ \E success \in {"True", "False"} :
          pipeline' = IF success = "True"
                      THEN ContinueAfter(Call("save_daily_edition", success), "generate")
                      ELSE ReturnAfter(Call("save_daily_edition", success), "False")
    /\ UNCHANGED <<request, process_vars>>

\* Step 6 and the return, lines 136-148.
GenerateAllPages ==
    /\ pipeline.pc = "generate"
    /\ \E success \in {"True", "False"} :
          pipeline' = ReturnAfter(Call("generate_all_pages", success), success)
    /\ UNCHANGED <<request, process_vars>>

\* The list handed to process_articles is not empty here (line 53), so the
\* empty-list branches of the processor are not among the steps.
NextPipeline ==
    \/ ScrapeAllSources
    \/ FetchContent
    \/ DedupSortRaises
    \/ DedupSort
    \/ DedupDiscard
    \/ DedupMerge
    \/ DedupKeep
    \/ RankRaises
    \/ RankArticles
    \/ ProcessReturned
    \/ SocialReactions
    \/ SaveDailyEdition
    \/ GenerateAllPages

SpecPipeline == InitPipeline /\ [][NextPipeline]_vars

\* =================================================================== claims
\* Helpers for stating the properties.
Processed == 1..Len(outcome)
ArticleAt(k) == articles[outcome[k].id]
KindAt(k) == outcome[k].kind
DedupReturned == Len(outcome) = Len(articles) /\ pc \in {"rank", "done", "raised"}
PositionIn(seq, x) == CHOOSE k \in 1..Len(seq) : seq[k] = x
ScoresAt(id) == added[id].scores
EngagementZero(a) ==
    /\ a.null \cap {"reddit_score", "reddit_comments"} = {}
    /\ GetNumber(a, "reddit_score") = 0
    /\ GetNumber(a, "reddit_comments") = 0

\* C1: after process_articles, every returned article has virality, impact,
\* controversy and final between 0 and 100.
C1_ScoresWithinBounds ==
    pc = "done" =>
        \A k \in 1..Len(ranked_articles) :
            LET sc == ScoresAt(ranked_articles[k])
            IN  /\ "scores" \in added[ranked_articles[k]].keys
                /\ 0 <= sc.virality.num /\ sc.virality.num <= 100 * sc.virality.den
                /\ 0 <= sc.impact /\ sc.impact <= 100
                /\ 0 <= sc.controversy /\ sc.controversy <= 100
                /\ 0 <= sc.final.num /\ sc.final.num <= 100 * sc.final.den

\* C1 witness: a ranked article whose matched categories and keyword hits sum
\* to more than 100 before the caps, with the batch's highest engagement.
C1_Witness ==
    /\ pc = "done"
    /\ \E k \in 1..Len(ranked_articles) :
          LET id == ranked_articles[k]
          IN  /\ Cardinality(MatchedCriteria(articles[id])) >= 6
              /\ ScoresAt(id).impact = 100
              /\ ScoresAt(id).controversy = 100
              /\ ScoresAt(id).virality = Rat(100, 1)
              /\ ScoresAt(id).final = Rat(100, 1)

\* C2: on a non-empty batch in which every article has zero engagement,
\* rank_articles returns and gives every article virality 0.
C2_ZeroEngagementBatchRanked ==
    (/\ DedupReturned
     /\ pc \in {"done", "raised"}
     /\ unique_articles # <<>>
     /\ \A k \in 1..Len(unique_articles) : EngagementZero(articles[unique_articles[k]]))
    => (/\ pc = "done"
        /\ \A k \in 1..Len(unique_articles) :
              ScoresAt(unique_articles[k]).virality = Rat(0, 1))

\* C3 as stated: of two articles with the same normalized title+url the later
\* one is always discarded, whatever happened to the earlier one.  Stated for
\* titles that normalize to a non-empty string, so that a violation does not
\* rest on how empty titles compare.
C3_LaterRepeatAlwaysDiscarded ==
    \A j \in Processed : \A k \in Processed :
        (/\ j < k
         /\ FingerprintOf[ArticleAt(j)] = FingerprintOf[ArticleAt(k)]
         /\ _normalize_text(GetText(ArticleAt(k), "title")) # <<>>)
            => KindAt(k) = "discarded"

\* C3 amended: when the loop is at an article whose fingerprint is that of an
\* article kept in unique_articles, the iteration appends nothing: neither a
\* canonical article nor a source.
C3_RepeatOfCanonicalDiscarded ==
    [][(/\ pc = "dedup_loop"
        /\ \E k \in 1..Len(unique_articles) :
              FingerprintOf[articles[unique_articles[k]]] = FingerprintOf[articles[Current]])
       => (/\ unique_articles' = unique_articles
           /\ added' = added
           /\ outcome' = Append(outcome, [id |-> Current, kind |-> "discarded", into |-> 0]))]_vars

\* C3 witness: an article was discarded as the repeat of a kept article whose
\* title differs from its own before normalization.
C3_Witness ==
    \E j \in Processed : \E k \in Processed :
        /\ j < k
        /\ KindAt(j) = "canonical" /\ KindAt(k) = "discarded"
        /\ FingerprintOf[ArticleAt(j)] = FingerprintOf[ArticleAt(k)]
        /\ ArticleAt(j).title # ArticleAt(k).title
        /\ "sources" \notin added[outcome[j].id].keys

\* The canonical articles the loop had kept before it reached position k of
\* the sorted batch, oldest first.
KeptBefore(k) ==
    SelectSeq([j \in 1..(k-1) |-> IF KindAt(j) = "canonical" THEN outcome[j].id ELSE 0],
              LAMBDA id : id # 0)

\* Title similarity strictly above 0.8, from the ratio itself.
Above08(a, b) == 10 * TitleRatio[a][b].num > 8 * TitleRatio[a][b].den

\* C4 as stated: every article whose title is more than 0.8 similar to a kept
\* canonical article has its source appended to a canonical article.  Stated
\* for titles that normalize to a non-empty string.
C4_SimilarAlwaysAppended ==
    \A k \in Processed :
        (/\ _normalize_text(GetText(ArticleAt(k), "title")) # <<>>
         /\ \E j \in 1..Len(KeptBefore(k)) :
                Above08(ArticleAt(k), articles[KeptBefore(k)[j]]))
            => KindAt(k) = "merged"

\* C4 amended: an article with a new fingerprint whose title is more than 0.8
\* similar to a kept canonical article creates no canonical article and its
\* source is appended to the first such article (two such articles give one
\* canonical article with two sources); with similarity at most 0.8 to every
\* kept article it becomes a canonical article itself.
C4_NearDuplicateMergedElseKept ==
    /\ unique_articles = KeptBefore(Len(outcome) + 1)
    /\ \A k \in Processed :
          LET kept == KeptBefore(k)
              similar == {j \in 1..Len(kept) : Above08(ArticleAt(k), articles[kept[j]])}
              fresh == \A j \in 1..Len(kept) :
                          FingerprintOf[articles[kept[j]]] # FingerprintOf[ArticleAt(k)]
          IN  fresh =>
                IF similar # {}
                THEN /\ KindAt(k) = "merged"
                     /\ outcome[k].into = kept[SetMin(similar)]
                ELSE KindAt(k) = "canonical"
    /\ \A k \in 1..Len(unique_articles) :
          LET id == unique_articles[k]
              merged == {j \in Processed : KindAt(j) = "merged" /\ outcome[j].into = id}
          IN  IF merged = {} THEN "sources" \notin added[id].keys
              ELSE /\ "sources" \in added[id].keys
                   /\ Len(added[id].sources) = 1 + Cardinality(merged)

\* C4 witness: a batch of two articles with distinct near-duplicate titles
\* gave one canonical article with two sources.
C4_Witness ==
    /\ DedupReturned
    /\ Len(articles) = 2
    /\ Len(unique_articles) = 1
    /\ KindAt(2) = "merged"
    /\ ArticleAt(1).title # ArticleAt(2).title
    /\ Len(added[unique_articles[1]].sources) = 2

\* C5: every article deduplicate_articles returns has a non-empty sources list.
C5_SourcesAlwaysPresent ==
    DedupReturned =>
        \A k \in 1..Len(unique_articles) :
            /\ "sources" \in added[unique_articles[k]].keys
            /\ Len(added[unique_articles[k]].sources) >= 1

\* The article of the impact example: that title, an empty text.
IsSeriesAExample(a) == GetText(a, "title") = T_series_a /\ GetText(a, "text") = <<>>

\* C6 as stated: the article titled "Startup raises $5M Series A in
\* Bangalore" with empty text has impact 30.
C6_SeriesAImpactIs30 ==
    \A id \in 1..Len(articles) :
        (IsSeriesAExample(articles[id]) /\ "scores" \in added[id].keys)
            => ScoresAt(id).impact = 30

\* C6 amended: that article has impact 45: funding_round (20), india_macro
\* (10) and ai_ml (15, "ai" occurs inside "raises") match, and no other
\* category.
C6_SeriesAImpactIs45 ==
    \A id \in 1..Len(articles) :
        (IsSeriesAExample(articles[id]) /\ "scores" \in added[id].keys)
            => /\ ScoresAt(id).impact = 45
               /\ {IMPACT_CRITERIA[k].name : k \in MatchedCriteria(articles[id])}
                     = {"funding_round", "india_macro", "ai_ml"}

\* C6 witness: the example article has been scored.
C6_Witness ==
    /\ pc = "done"
    /\ \E id \in 1..Len(articles) :
          /\ IsSeriesAExample(articles[id])
          /\ "scores" \in added[id].keys
          /\ ScoresAt(id).impact > 0

\* C7: the final score stored on every ranked article is 0.5 * virality +
\* 0.35 * impact + 0.15 * controversy of the scores stored on that article.
C7_FinalIsWeightedSum ==
    pc = "done" =>
        \A k \in 1..Len(ranked_articles) :
            LET sc == ScoresAt(ranked_articles[k])
            IN  sc.final.num * (WeightScale * sc.virality.den)
                  = (WeightVirality * sc.virality.num
                       + WeightImpact * sc.impact * sc.virality.den
                       + WeightControversy * sc.controversy * sc.virality.den)
                    * sc.final.den

\* C7 witness: a ranked article whose three scores are all positive and not
\* all equal.
C7_Witness ==
    /\ pc = "done"
    /\ \E k \in 1..Len(ranked_articles) :
          LET sc == ScoresAt(ranked_articles[k])
          IN  /\ sc.virality.num > 0 /\ sc.impact > 0 /\ sc.controversy > 0
              /\ sc.virality # Rat(sc.impact, 1)
              /\ sc.impact # sc.controversy

\* C8: rank_articles returns the articles by final score, highest first, and
\* articles with equal final score in the order they had in its input.
C8_SortedDescendingStable ==
    pc = "done" =>
        /\ Len(ranked_articles) = Len(unique_articles)
        /\ Range(ranked_articles) = Range(unique_articles)
        /\ \A x \in 1..Len(ranked_articles) : \A y \in 1..Len(ranked_articles) :
              x < y =>
                LET fx == ScoresAt(ranked_articles[x]).final
                    fy == ScoresAt(ranked_articles[y]).final
                IN  /\ RatLeq(fy, fx)
                    /\ RatEq(fx, fy) =>
                          PositionIn(unique_articles, ranked_articles[x])
                            < PositionIn(unique_articles, ranked_articles[y])

\* C8 witness: the shape of the example, finals [low, high, high] at input
\* positions 1, 2, 3 returned in the order [2, 3, 1].
C8_Witness ==
    /\ pc = "done"
    /\ Len(unique_articles) = 3
    /\ ranked_articles = <<unique_articles[2], unique_articles[3], unique_articles[1]>>
    /\ RatEq(ScoresAt(unique_articles[2]).final, ScoresAt(unique_articles[3]).final)
    /\ RatLess(ScoresAt(unique_articles[1]).final, ScoresAt(unique_articles[2]).final)

\* The sources of the articles merged into canonical article `id`, in the
\* order the loop met them.
MergedSources(id) ==
    SelectSeq([j \in Processed |->
                  IF KindAt(j) = "merged" /\ outcome[j].into = id
                  THEN <<GetText(ArticleAt(j), "source")>> ELSE <<>>],
              LAMBDA s : s # <<>>)

\* C9: every article the loop has gone through is accounted for in exactly
\* one way (kept as canonical, its source appended to exactly one canonical
\* article, or discarded as a repeat of a recorded fingerprint), and when
\* deduplicate_articles returns the three counts add up to the batch size.
C9_EveryArticleAccountedFor ==
    LET canonical == {k \in Processed : KindAt(k) = "canonical"}
        merged == {k \in Processed : KindAt(k) = "merged"}
        discarded == {k \in Processed : KindAt(k) = "discarded"}
        appended(id) == IF "sources" \in added[id].keys
                        THEN Len(added[id].sources) - 1 ELSE 0
    IN  /\ pc = "dedup_loop" => Len(outcome) = idx - 1
        /\ \A k \in Processed : outcome[k].id = sorted_articles[k]
        /\ Cardinality(Range(sorted_articles)) = Len(sorted_articles)
        /\ Len(unique_articles) = Cardinality(canonical)
        /\ \A k \in canonical : outcome[k].id \in Range(unique_articles)
        /\ SumSeq([k \in 1..Len(unique_articles) |-> appended(unique_articles[k])])
              = Cardinality(merged)
        /\ \A k \in merged :
              /\ outcome[k].into \in Range(unique_articles)
              /\ outcome[k].id \notin Range(unique_articles)
        /\ \A k \in 1..Len(unique_articles) :
              "sources" \in added[unique_articles[k]].keys =>
                  Tail(added[unique_articles[k]].sources)
                    = [j \in 1..Len(MergedSources(unique_articles[k])) |->
                          MergedSources(unique_articles[k])[j][1]]
        /\ \A k \in discarded :
              /\ FingerprintOf[ArticleAt(k)] \in seen_fingerprints
              /\ outcome[k].id \notin Range(unique_articles)
        /\ DedupReturned =>
              /\ Range(sorted_articles) = 1..Len(articles)
              /\ Cardinality(canonical) + Cardinality(merged) + Cardinality(discarded)
                    = Len(articles)

\* C9 witness: deduplicate_articles returned from a batch in which all three
\* outcomes occurred.
C9_Witness ==
    /\ DedupReturned
    /\ \E k \in Processed : KindAt(k) = "merged"
    /\ \E k \in Processed : KindAt(k) = "discarded"
    /\ Len(unique_articles) >= 1

\* C10: processing never ends with an exception caused by a record whose
\* field is missing or None.
C10_MissingFieldsNeverRaise ==
    error \notin {"TypeError", "AttributeError"}

\* The articles of the batch have pairwise different urls.
DistinctUrls ==
    \A j \in 1..Len(articles) : \A k \in 1..Len(articles) :
        j # k => UrlKey(articles[j]) # UrlKey(articles[k])

\* C11: when process_articles is called a second time on the same batch, it
\* returns the articles in the same order and with the same virality, impact,
\* controversy and final score as the first call did.  Stated for batches
\* of articles with different urls.
C11_SecondRunSameResult ==
    (DistinctUrls /\ earlier_runs # <<>> /\ pc \in {"done", "raised"})
        => (pc = "done" /\ Returned = earlier_runs[1])

\* The weights sum to 1.0.
WeightsSumToOne(weights) ==
    weights.virality + weights.impact + weights.controversy = WeightScale

\* C12: with weights that do not sum to 1.0 the processor is never set up:
\* construction ends in a configuration error, and no article is deduplicated
\* or scored with them.
C12_BadWeightsRejected ==
    ~WeightsSumToOne(ranking_weights)
        => (pc = "construct" \/ error = "ConfigurationError")

\* C13: once deduplicate_articles has returned, and once rank_articles has
\* returned, every dict of the input list has the keys and values it was
\* handed in with: none has been given sources, scores, summary or tags.
C13_InputRecordsUnchanged ==
    pc \in {"rank", "done"} => \A k \in 1..Len(articles) : added[k].keys = {}

\* C14: when rank_articles has scored a batch whose highest engagement is
\* positive, the virality of every article is its own engagement divided by
\* the highest engagement of the batch, times 100, and the article with the
\* highest engagement has virality 100.
C14_ViralityIsShareOfMax ==
    (pc = "done" /\ unique_articles # <<>>) =>
        LET max_engagement == MaxEngagement10(UniqueDicts)
        IN  /\ max_engagement > 0
            /\ \A id \in Range(unique_articles) :
                  /\ ScoresAt(id).virality
                        = Rat(100 * Engagement10(articles[id]), max_engagement)
                  /\ Engagement10(articles[id]) = max_engagement
                        => ScoresAt(id).virality = Rat(100, 1)

\* C15: on an empty batch deduplicate_articles returns an empty list,
\* rank_articles returns an empty list, and so does process_articles; none
\* of them raises.
C15_EmptyBatchEmptyResult ==
    articles = <<>> =>
        /\ pc \in {"deduplicate", "rank", "done"}
        /\ error = "none"
        /\ unique_articles = <<>>
        /\ ranked_articles = <<>>

\* C15 witness: process_articles has returned from an empty batch, both
\* stages having returned an empty list.
C15_Witness ==
    /\ articles = <<>>
    /\ pc = "done"
    /\ unique_articles = <<>>
    /\ ranked_articles = <<>>
    /\ error = "none"

\* The title is a string of punctuation only: not empty, empty once normalized.
PunctuationOnly(a) ==
    /\ ~Falsy(GetText(a, "title"))
    /\ _normalize_text(GetText(a, "title")) = <<>>

\* C16: an article whose title is empty after normalization is never merged,
\* as a near-duplicate, into a canonical article whose title is empty after
\* normalization too: two such articles with different urls stay two
\* canonical articles.
C16_EmptyTitlesStaySeparate ==
    \A k \in Processed :
        (PunctuationOnly(ArticleAt(k)) /\ KindAt(k) = "merged")
            => ~PunctuationOnly(articles[outcome[k].into])

\* The article carries a publication date.
Dated(a) == "published_at" \notin (a.absent \cup a.null)

\* C17: the loop takes the articles in ascending order of published_at (an
\* article without the key stands where the clock reading of the call puts
\* it), articles with equal dates in arrival order; so every article merged
\* into a canonical article was taken after it and, when both carry a date,
\* is not published earlier.  The canonical article is the dict of that
\* first-taken instance, with its title and url.
C17_CanonicalIsEarliest ==
    pc \in {"dedup_loop", "rank", "done"} /\ articles # <<>> =>
        /\ Range(sorted_articles) = 1..Len(articles)
        /\ \E now \in Clock :
              \A i \in 1..Len(sorted_articles) : \A j \in 1..Len(sorted_articles) :
                  i < j =>
                      LET ki == PublishedKey(articles[sorted_articles[i]], now)
                          kj == PublishedKey(articles[sorted_articles[j]], now)
                      IN  ki < kj \/ (ki = kj /\ sorted_articles[i] < sorted_articles[j])
        /\ \A k \in Processed :
              /\ outcome[k].id = sorted_articles[k]
              /\ KindAt(k) = "merged" =>
                    LET canonical == outcome[k].into
                    IN  /\ \E j \in 1..(k - 1) :
                              outcome[j].id = canonical /\ KindAt(j) = "canonical"
                        /\ canonical \in Range(unique_articles)
                        /\ (Dated(articles[canonical]) /\ Dated(ArticleAt(k)))
                              => articles[canonical].published_at
                                    <= ArticleAt(k).published_at

\* C17 witness: an article that arrived first but is published later has
\* been merged into an article that arrived after it, and two articles with
\* the same date have been taken in arrival order.
C17_Witness ==
    /\ pc = "rank"
    /\ \E k \in Processed :
          /\ KindAt(k) = "merged"
          /\ Dated(ArticleAt(k)) /\ Dated(articles[outcome[k].into])
          /\ articles[outcome[k].into].published_at < ArticleAt(k).published_at
          /\ outcome[k].into > outcome[k].id
    /\ \E i \in Processed : \E j \in Processed :
          /\ i < j
          /\ Dated(ArticleAt(i)) /\ Dated(ArticleAt(j))
          /\ ArticleAt(i).published_at = ArticleAt(j).published_at

\* The sources list of a dict as the code would read it back.
SourcesOn(add, id) ==
    IF "sources" \in add[id].keys THEN add[id].sources
    ELSE <<GetText(articles[id], "source")>>

\* The positions in unique_articles of the articles similar to the one the
\* loop is at.
SimilarKept ==
    {j \in 1..Len(unique_articles) : Above08(articles[Current], articles[unique_articles[j]])}

\* C18: an iteration on an article with a new fingerprint that is similar to
\* several articles of unique_articles appends its source to the first of
\* them in list order and to no other: every other dict is left as it was,
\* and no article is added to the list.
C18_OnlyFirstSimilarGrows ==
    [][(/\ pc = "dedup_loop"
        /\ FingerprintOf[articles[Current]] \notin seen_fingerprints
        /\ Cardinality(SimilarKept) >= 2)
       => LET first == unique_articles[SetMin(SimilarKept)]
          IN  /\ SourcesOn(added', first)
                    = Append(SourcesOn(added, first), GetText(articles[Current], "source"))
              /\ \A id \in DOMAIN added : id # first => added'[id] = added[id]
              /\ unique_articles' = unique_articles
              /\ seen_fingerprints' = seen_fingerprints]_vars

\* C18 witness: an article similar to two kept articles has been merged, its
\* source is the last of the first one's sources, and the second one has no
\* sources of its own yet.
C18_Witness ==
    \E k \in Processed :
        LET similar == {j \in 1..Len(KeptBefore(k)) :
                           Above08(ArticleAt(k), articles[KeptBefore(k)[j]])}
        IN  /\ KindAt(k) = "merged"
            /\ Cardinality(similar) >= 2
            /\ outcome[k].into = KeptBefore(k)[SetMin(similar)]
            /\ k = Len(outcome)
            /\ SourcesOn(added, outcome[k].into)[Len(SourcesOn(added, outcome[k].into))]
                  = GetText(ArticleAt(k), "source")
            /\ \E j \in similar :
                  j # SetMin(similar) /\ "sources" \notin added[KeptBefore(k)[j]].keys

\* C19: at every step of the loop, and when it has ended, seen_fingerprints
\* is exactly the set of the fingerprints of the articles in unique_articles;
\* the fingerprint of a merged or discarded article is not added.
C19_SeenIsCanonicalFingerprints ==
    seen_fingerprints = {FingerprintOf[articles[id]] : id \in Range(unique_articles)}

\* C19 witness: two articles have been kept and a third, with a fingerprint
\* of its own, has been merged; its fingerprint is not in seen_fingerprints.
C19_Witness ==
    /\ Cardinality(seen_fingerprints) = 2
    /\ Len(unique_articles) = 2
    /\ \E k \in Processed :
          /\ KindAt(k) = "merged"
          /\ FingerprintOf[ArticleAt(k)] \notin seen_fingerprints

\* `keyword` occurs in `text` at some position, letter case ignored.
OccursIgnoringCase(text, keyword) ==
    \E i \in 1..(Len(text) - Len(keyword) + 1) :
        Lower(SubSeq(text, i, i + Len(keyword) - 1)) = Lower(keyword)

\* The taxonomy categories with at least one keyword in title + " " + text.
CategoriesPresent(a) ==
    LET text == GetText(a, "title") \o <<" ">> \o GetText(a, "text")
    IN  {c \in 1..Len(IMPACT_CRITERIA) :
            \E j \in 1..Len(IMPACT_CRITERIA[c].keywords) :
                OccursIgnoringCase(text, IMPACT_CRITERIA[c].keywords[j])}

RECURSIVE SumOfScores(_)
SumOfScores(categories) ==
    IF categories = {} THEN 0
    ELSE LET c == CHOOSE x \in categories : TRUE
         IN  IMPACT_CRITERIA[c].score + SumOfScores(categories \ {c})

\* For each record of the pool whose title and text are strings or missing:
\* the capped sum over the categories present, each counted once.
ExpectedImpact ==
    [a \in {b \in ArticlePool : b.null \cap {"title", "text"} = {}} |->
        LET total == SumOfScores(CategoriesPresent(a))
        IN  IF total > 100 THEN 100 ELSE total]

\* C20: the impact score of every ranked article is the sum, capped at 100,
\* of the scores of exactly the categories that have a keyword occurring,
\* letter case ignored, in title + " " + text, each category counted once.
C20_ImpactIsCappedCategorySum ==
    pc = "done" =>
        \A id \in Range(ranked_articles) :
            /\ articles[id].null \cap {"title", "text"} = {}
            /\ ScoresAt(id).impact = ExpectedImpact[articles[id]]

\* C20 witness: ranked articles among which one has two keywords of one
\* category in its title (counted once), one is in a category only when
\* letter case is ignored, and one reaches the cap.
C20_Witness ==
    /\ pc = "done"
    /\ \E id \in Range(ranked_articles) :
          /\ Cardinality({j \in 1..Len(IMPACT_CRITERIA[1].keywords) :
                 OccursIgnoringCase(GetText(articles[id], "title"),
                                    IMPACT_CRITERIA[1].keywords[j])}) >= 2
          /\ ScoresAt(id).impact = 45
    /\ \E id \in Range(ranked_articles) :
          \E c \in CategoriesPresent(articles[id]) :
              ~AnyKeyword(GetText(articles[id], "title") \o <<" ">>
                             \o GetText(articles[id], "text"),
                          IMPACT_CRITERIA[c].keywords)
    /\ \E id \in Range(ranked_articles) :
          /\ SumOfScores(CategoriesPresent(articles[id])) > 100
          /\ ScoresAt(id).impact = 100

\* C21: the tags stored on every ranked article contain no tag twice, begin
\* with the article's category and go on with the tags of the content rules
\* that match, in the order the rules are written.
C21_TagsCategoryFirstInRuleOrder ==
    pc = "done" =>
        \A id \in Range(ranked_articles) :
            LET tags == added[id].tags
            IN  /\ "tags" \in added[id].keys
                /\ \A i \in 1..Len(tags) : \A j \in 1..Len(tags) :
                      i # j => tags[i] # tags[j]
                /\ tags[1] = articles[id].category
                /\ tags = TagListOf[articles[id]]

\* The "what happened" sentences in the order funding, acquisition, layoff,
\* launch.
WhatHappened ==
    <<"A funding round was announced",
      "An acquisition or merger was announced",
      "Layoffs or job cuts were announced",
      "A new product or service was launched">>

\* The rules of that order whose keywords occur in the title of the article.
RulesMatched(a) ==
    {r \in 1..Len(WhatHappened) :
        \E j \in 1..Len(SummaryRules[r].keywords) :
            OccursIgnoringCase(GetText(a, "title"), SummaryRules[r].keywords[j])}

RulesMatchedOf == [a \in TextPool |-> RulesMatched(a)]

\* C22: the first sentence of the summary stored on every ranked article is
\* the sentence of the earliest rule, in the order funding, acquisition,
\* layoff, launch, that the article matches, and the generic sentence when
\* it matches none.
C22_SummaryUsesEarliestRule ==
    pc = "done" =>
        \A id \in Range(ranked_articles) :
            LET matched == RulesMatchedOf[articles[id]]
                what == added[id].summary[1]
            IN  /\ "summary" \in added[id].keys
                /\ \A r \in matched :
                      (\A q \in matched : r <= q) => what = WhatHappened[r]
                /\ matched = {} => what = "A significant development was reported"

\* C22 witness: the ranked articles include one whose title matches two
\* rules and carries the sentence of the earlier one, and one that matches
\* none and carries the generic sentence.
C22_Witness ==
    /\ pc = "done"
    /\ \E id \in Range(ranked_articles) :
          /\ Cardinality(RulesMatchedOf[articles[id]]) >= 2
          /\ added[id].summary[1] = WhatHappened[SetMin(RulesMatchedOf[articles[id]])]
    /\ \E id \in Range(ranked_articles) :
          /\ RulesMatchedOf[articles[id]] = {}
          /\ added[id].summary[1] = "A significant development was reported"

\* For each record whose title and text are strings or missing: 20 for each
\* controversy keyword that occurs in title + " " + text, however often,
\* capped at 100.
ExpectedControversy ==
    [a \in {b \in Records : b.null \cap {"title", "text"} = {}} |->
        LET text == GetText(a, "title") \o <<" ">> \o GetText(a, "text")
            hits == Cardinality({k \in 1..Len(controversy_keywords) :
                                    OccursIgnoringCase(text, controversy_keywords[k])})
        IN  IF hits * 20 > 100 THEN 100 ELSE hits * 20]

\* C23: the controversy score of every ranked article is 20 times the number
\* of distinct controversy keywords occurring in its own lowered title and
\* text, capped at 100.
C23_ControversyIsCappedKeywordCount ==
    pc = "done" =>
        \A id \in Range(ranked_articles) :
            ScoresAt(id).controversy = ExpectedControversy[articles[id]]

\* C24: when two articles of the deduplicated batch have the same url, the
\* virality and controversy stored on each of them are still the ones
\* computed from its own engagement and its own title and text.
C24_ScoresAreOwnDespiteSharedUrl ==
    pc = "done" =>
        \A id \in Range(unique_articles) : \A other \in Range(unique_articles) :
            (id # other /\ UrlKey(articles[id]) = UrlKey(articles[other])) =>
                /\ ScoresAt(id).virality
                      = Rat(100 * Engagement10(articles[id]), MaxEngagement10(UniqueDicts))
                /\ ScoresAt(id).controversy = ControversyOfRecord[articles[id]]

\* C25: after every iteration of the loop and when it has ended, no two
\* articles of unique_articles have the same fingerprint, and the title of
\* each is at most 0.8 similar to the title of every article before it in
\* the list.
C25_CanonicalsPairwiseApart ==
    \A i \in 1..Len(unique_articles) : \A j \in 1..Len(unique_articles) :
        i < j =>
            LET earlier == articles[unique_articles[i]]
                later == articles[unique_articles[j]]
            IN  /\ FingerprintOf[earlier] # FingerprintOf[later]
                /\ ~Above08(later, earlier)

\* C25 witness: the loop is still running with two articles kept whose
\* titles are exactly 0.8 similar.
C25_Witness ==
    /\ pc = "dedup_loop"
    /\ Len(unique_articles) = 2
    /\ LET r == TitleRatio[articles[unique_articles[2]]][articles[unique_articles[1]]]
       IN  10 * r.num = 8 * r.den

\* C26: the list rank_articles returns is a rearrangement of the list it was
\* given (same length, every article once), and every article in it carries
\* scores with exactly the keys virality, impact, controversy and final, a
\* summary and tags.
C26_RankedIsPermutationWithFields ==
    pc = "done" =>
        /\ Len(ranked_articles) = Len(unique_articles)
        /\ \A id \in Range(unique_articles) :
              Cardinality({k \in 1..Len(ranked_articles) : ranked_articles[k] = id}) = 1
        /\ \A k \in 1..Len(ranked_articles) :
              LET id == ranked_articles[k]
              IN  /\ id \in Range(unique_articles)
                  /\ {"scores", "summary", "tags"} \subseteq added[id].keys
                  /\ DOMAIN added[id].scores
                        = {"virality", "impact", "controversy", "final"}
                  /\ added[id].summary # <<>>
                  /\ added[id].tags # <<>>

\* C26 witness: three articles were ranked and came out in another order
\* than they went in.
C26_Witness ==
    /\ pc = "done"
    /\ Len(unique_articles) = 3
    /\ Len(ranked_articles) = 3
    /\ ranked_articles # unique_articles

\* C27: deduplicate_articles applied to the list it returned returns the
\* same articles in the same order, with the sources each had; it merges and
\* discards none of them.
C27_DedupIdempotentOnOutput ==
    (earlier_runs # <<>> /\ pc \in {"rank", "done", "raised"}) =>
        /\ Deduplicated = earlier_runs[1]
        /\ \A k \in Processed : KindAt(k) = "canonical"

\* The tag that goes with each "what happened" sentence, in the same order.
TagOfSentence == <<"funding", "m&a", "layoffs", "product">>

\* C28: whenever the summary of a ranked article begins with the funding,
\* acquisition, layoff or launch sentence, the tags of that article contain
\* 'funding', 'm&a', 'layoffs' or 'product' respectively.
C28_SummarySentenceHasItsTag ==
    pc = "done" =>
        \A id \in Range(ranked_articles) :
            \A r \in 1..Len(WhatHappened) :
                added[id].summary[1] = WhatHappened[r] =>
                    TagOfSentence[r] \in Range(added[id].tags)

\* C28 witness: two ranked articles, one with the funding sentence and the
\* 'funding' tag, one with the launch sentence and the 'product' tag, and
\* neither has text for the tagger to find the keyword in.
C28_Witness ==
    /\ pc = "done"
    /\ \E id \in Range(ranked_articles) :
          /\ added[id].summary[1] = WhatHappened[1]
          /\ "funding" \in Range(added[id].tags)
          /\ GetText(articles[id], "text") = <<>>
    /\ \E id \in Range(ranked_articles) :
          /\ added[id].summary[1] = WhatHappened[4]
          /\ "product" \in Range(added[id].tags)
          /\ GetText(articles[id], "text") = <<>>

\* The GETs of line 71 in the history, and what the last of them did.
MainGets == SelectSeq(request.gets, LAMBDA g : g.line = 71)
Retryable(o) == o \in {Response(429), Response(503), Raises("Exception")}

\* While and after _make_request runs: retries never passes max_retries, at
\* most max_retries GETs are sent from line 71, a GET of line 71 is followed
\* by another one only if it returned 429 or 503 or raised an exception
\* other than SSLError; once returned, the result is None if retries
\* reached max_retries and None if the last GET of line 71 returned a
\* status other than 200, 429 and 503.
RequestRetriesBounded ==
    /\ request.retries <= max_retries
    /\ Len(MainGets) <= max_retries
    /\ request.retries = Cardinality({k \in 1..Len(MainGets) : Retryable(MainGets[k].outcome)})
    /\ \A k \in 1..Len(MainGets) - 1 : Retryable(MainGets[k].outcome)
    /\ request.pc = "returned" =>
          /\ request.retries = max_retries => request.response = ReturnNone
          /\ \A c \in StatusCodes \ {200, 429, 503} :
                MainGets # <<>> /\ MainGets[Len(MainGets)].outcome = Response(c) =>
                    request.response = ReturnNone

\* C30: _make_request always returns; it retries at most max_retries (5)
\* times, only after a 429 or 503 status or an exception other than
\* SSLError, returns None once retries reaches max_retries, and returns None
\* without retrying on any other status that is not 200.
C30_MakeRequestTerminates ==
    /\ <>(request.pc = "returned")
    /\ []RequestRetriesBounded

\* C30 witness: the call has returned None after max_retries retries, some
\* after a 429 or 503 and some after an exception.
C30_Witness ==
    /\ request.pc = "returned"
    /\ request.retries = max_retries
    /\ request.response = ReturnNone
    /\ \E k \in 1..Len(MainGets) : MainGets[k].outcome = Raises("Exception")
    /\ \E k \in 1..Len(MainGets) : MainGets[k].outcome \in {Response(429), Response(503)}

\* The steps of run_daily_pipeline in the order of the code, and for each
\* the results after which the next one is made.
PipelineOrder ==
    <<"scrape_all_sources", "fetch_article_content", "process_articles",
      "get_top_reactions", "save_daily_edition", "generate_all_pages">>
LetsThrough ==
    <<{"articles"}, {"done"}, {"articles"}, {"found", "raised"}, {"True"}, {"True"}>>
Called(function) == \E k \in 1..Len(pipeline.calls) : pipeline.calls[k].call = function
ResultAt(k) == pipeline.calls[k].result

\* C29: the calls of run_daily_pipeline are made in the order scrape, fetch,
\* process, reactions, save, generate, each only after the one before let
\* it through: the edition is saved only after process_articles returned a
\* non-empty list, pages are generated only after the save returned True,
\* True is returned only after scraping and processing returned articles
\* and save and generation returned True, and a reactions step that raised
\* is still followed by the save.
C29_PipelineStepsGated ==
    /\ Len(pipeline.calls) <= Len(PipelineOrder)
    /\ \A k \in 1..Len(pipeline.calls) :
          /\ pipeline.calls[k].call = PipelineOrder[k]
          /\ k > 1 => ResultAt(k - 1) \in LetsThrough[k - 1]
    /\ Called("save_daily_edition") =>
          /\ ResultAt(3) = "articles"
          /\ pc = "done" /\ ranked_articles # <<>>
    /\ Called("generate_all_pages") => ResultAt(5) = "True"
    /\ pipeline.returned = "True" =>
          /\ Len(pipeline.calls) = 6
          /\ ResultAt(1) = "articles" /\ ResultAt(3) = "articles"
          /\ ResultAt(5) = "True" /\ ResultAt(6) = "True"
    /\ (pipeline.pc = "returned" /\ Len(pipeline.calls) >= 4 /\ ResultAt(4) = "raised") =>
          Called("save_daily_edition")
    /\ pc \notin {"idle"} => Called("fetch_article_content")

\* C29 witness: the reactions step raised, the edition was saved all the
\* same, the pages were generated and True was returned.
C29_Witness ==
    /\ pipeline.pc = "returned"
    /\ pipeline.returned = "True"
    /\ ResultAt(4) = "raised"
    /\ Called("save_daily_edition")
    /\ Len(ranked_articles) = 2
====
